---- MODULE Spec2Model ----
(***************************************************************************)
(* A model of src/src/event.rs: the CGEvent handle over a native,          *)
(* reference-counted CoreGraphics event.                                   *)
(*                                                                         *)
(* The wrapper's state is the table of handles a caller holds (each a      *)
(* guarded pointer) and the caller's CGEventSource values; everything else *)
(* lives in the native event the pointer names: its reference count, type, *)
(* flags, location and unicode string.  Every wrapper method is one        *)
(* action; the native entry points of the extern block are operators on    *)
(* the native heap.                                                        *)
(*                                                                         *)
(* Representations.  A 64-bit flag mask is the set of its set bit          *)
(* positions (a subset of 0..63).  A 32-bit discriminant is the pair       *)
(* <<high 16 bits, low 16 bits>>.  A string is the sequence of its Unicode *)
(* scalar values, a UTF-16 buffer the sequence of its code units.          *)
(***************************************************************************)
EXTENDS Integers, Sequences, FiniteSets

VARIABLES
    elcapitan,  \* the build's "elcapitan" feature (fixed for a behaviour)
    sources,    \* the caller's CGEventSource variables: "empty" or "live"
    handles,    \* the CGEvent handles: state, pointer, the handle first made
    heap,       \* the native events, by pointer
    last        \* the last wrapper call: its arguments, native call and result

vars == <<elcapitan, sources, handles, heap, last>>

(***************************************************************************)
(* Bounds of the model.                                                    *)
(***************************************************************************)
MaxHandles == 2
MaxEvents == 2
MaxSources == 1
MaxStrLen == 2

HandleIds == 1..MaxHandles
Ptrs == 1..MaxEvents
SourceIds == 1..MaxSources

\* The null pointer: what is_null() tests for.
NullPtr == 0

SeqsUpTo(S, n) == UNION {[1..k -> S] : k \in 0..n}

(***************************************************************************)
(* CGEventFlags: a 64-bit mask, here the set of its bit positions.         *)
(***************************************************************************)
CGEventFlagNull == {}
CGEventFlagAlphaShift == {16}
CGEventFlagShift == {17}
CGEventFlagControl == {18}
CGEventFlagAlternate == {19}
CGEventFlagCommand == {20}
CGEventFlagHelp == {22}
CGEventFlagSecondaryFn == {23}
CGEventFlagNumericPad == {21}
CGEventFlagNonCoalesced == {8}

\* The bits the nine named constants cover.
NamedFlagBits ==
    CGEventFlagAlphaShift \cup CGEventFlagShift \cup CGEventFlagControl
    \cup CGEventFlagAlternate \cup CGEventFlagCommand \cup CGEventFlagHelp
    \cup CGEventFlagSecondaryFn \cup CGEventFlagNumericPad
    \cup CGEventFlagNonCoalesced

AllFlagBits == 0..63

(***************************************************************************)
(* CGEventType and its discriminants, <<high half, low half>>.             *)
(***************************************************************************)
CGEventType ==
    {"Null", "LeftMouseDown", "LeftMouseUp", "RightMouseDown", "RightMouseUp",
     "MouseMoved", "LeftMouseDragged", "RightMouseDragged", "KeyDown", "KeyUp",
     "FlagsChanged", "ScrollWheel", "TabletPointer", "TabletProximity",
     "OtherMouseDown", "OtherMouseUp", "OtherMouseDragged",
     "TapDisabledByTimeout", "TapDisabledByUserInput"}

\* A plausible slip: both sentinels given the code 0xFFFFFFFF.
DiscriminantSentinelsMerged(t) ==
    CASE t = "Null" -> <<0, 0>>
      [] t = "LeftMouseDown" -> <<0, 1>>
      [] t = "LeftMouseUp" -> <<0, 2>>
      [] t = "RightMouseDown" -> <<0, 3>>
      [] t = "RightMouseUp" -> <<0, 4>>
      [] t = "MouseMoved" -> <<0, 5>>
      [] t = "LeftMouseDragged" -> <<0, 6>>
      [] t = "RightMouseDragged" -> <<0, 7>>
      [] t = "KeyDown" -> <<0, 10>>
      [] t = "KeyUp" -> <<0, 11>>
      [] t = "FlagsChanged" -> <<0, 12>>
      [] t = "ScrollWheel" -> <<0, 22>>
      [] t = "TabletPointer" -> <<0, 23>>
      [] t = "TabletProximity" -> <<0, 24>>
      [] t = "OtherMouseDown" -> <<0, 25>>
      [] t = "OtherMouseUp" -> <<0, 26>>
      [] t = "OtherMouseDragged" -> <<0, 27>>
      [] t = "TapDisabledByTimeout" -> <<65535, 65535>>
      [] t = "TapDisabledByUserInput" -> <<65535, 65535>>

\* The value a variant has on the native side of the call.
Discriminant(t) ==
    CASE t = "Null" -> <<0, 0>>
      [] t = "LeftMouseDown" -> <<0, 1>>
      [] t = "LeftMouseUp" -> <<0, 2>>
      [] t = "RightMouseDown" -> <<0, 3>>
      [] t = "RightMouseUp" -> <<0, 4>>
      [] t = "MouseMoved" -> <<0, 5>>
      [] t = "LeftMouseDragged" -> <<0, 6>>
      [] t = "RightMouseDragged" -> <<0, 7>>
      [] t = "KeyDown" -> <<0, 10>>
      [] t = "KeyUp" -> <<0, 11>>
      [] t = "FlagsChanged" -> <<0, 12>>
      [] t = "ScrollWheel" -> <<0, 22>>
      [] t = "TabletPointer" -> <<0, 23>>
      [] t = "TabletProximity" -> <<0, 24>>
      [] t = "OtherMouseDown" -> <<0, 25>>
      [] t = "OtherMouseUp" -> <<0, 26>>
      [] t = "OtherMouseDragged" -> <<0, 27>>
      [] t = "TapDisabledByTimeout" -> <<65535, 65534>>
      [] t = "TapDisabledByUserInput" -> <<65535, 65535>>

\* The variant a native value is read back as.
FromDiscriminant(d) == CHOOSE t \in CGEventType : Discriminant(t) = d

CGMouseButton == {"Left", "Right", "Center"}

CGEventTapLocation == {"HID", "Session", "AnnotatedSession"}

(***************************************************************************)
(* str::encode_utf16, as set_string uses it: one unit for a scalar value   *)
(* below 0x10000, a surrogate pair above.                                  *)
(***************************************************************************)
\* A plausible slip: every scalar value cut to one 16-bit unit.
EncodeCharTruncating(c) == <<c % 65536>>

EncodeChar(c) ==
    IF c < 65536
    THEN <<c>>
    ELSE <<55296 + ((c - 65536) \div 1024), 56320 + ((c - 65536) % 1024)>>

RECURSIVE encode_utf16(_)
encode_utf16(s) ==
    IF s = <<>> THEN <<>> ELSE EncodeChar(Head(s)) \o encode_utf16(Tail(s))

(***************************************************************************)
(* The native layer: CoreFoundation's retain/release pair and the entry    *)
(* points of the extern block, as operators on the native heap.            *)
(***************************************************************************)
\* The memory at a pointer that holds no event.
BlankEvent ==
    [alloc |-> FALSE, rc |-> 0, retains |-> 0, releases |-> 0, frees |-> 0,
     type |-> <<0, 0>>, flags |-> {}, loc |-> <<0, 0>>, ulen |-> 0,
     ustr |-> <<>>]

\* A create call that returns `p`: a new event holding one reference.
\* A null result creates nothing.
NativeCreate(hp, p, d, f, loc) ==
    IF p = NullPtr
    THEN hp
    ELSE [hp EXCEPT ![p] = [BlankEvent EXCEPT !.alloc = TRUE, !.rc = 1,
                               !.type = d, !.flags = f, !.loc = loc]]

CFRetain(hp, p) ==
    [hp EXCEPT ![p].rc = @ + 1, ![p].retains = @ + 1]

\* The count drops by one; at zero the event is freed and its memory gone.
\* A release of an already freed event frees it again.
CFRelease(hp, p) ==
    IF hp[p].rc > 1
    THEN [hp EXCEPT ![p].rc = @ - 1, ![p].releases = @ + 1]
    ELSE [hp EXCEPT ![p] = [BlankEvent EXCEPT !.alloc = TRUE,
                               !.retains = hp[p].retains,
                               !.releases = hp[p].releases + 1,
                               !.frees = hp[p].frees + 1]]

CGEventSetFlags(hp, p, f) == [hp EXCEPT ![p].flags = f]

CGEventGetFlags(hp, p) == hp[p].flags

CGEventSetType(hp, p, d) == [hp EXCEPT ![p].type = d]

CGEventGetType(hp, p) == hp[p].type

CGEventGetLocation(hp, p) == hp[p].loc

\* The event keeps the first `length` units of the buffer.
CGEventKeyboardSetUnicodeString(hp, p, length, buf) ==
    [hp EXCEPT ![p].ulen = length, ![p].ustr = SubSeq(buf, 1, length)]

\* Posting reads the event and changes nothing of it.
CGEventPost(hp, tap, p) == hp

CGEventPostToPid(hp, pid, p) == hp

(***************************************************************************)
(* The wrapper: foreign_type!'s drop and clone, and CGEvent's methods.     *)
(***************************************************************************)
\* A plausible slip: a drop that frees whatever the count.
foreign_drop_freeing(hp, p) ==
    [hp EXCEPT ![p] = [BlankEvent EXCEPT !.alloc = TRUE,
                          !.retains = hp[p].retains,
                          !.releases = hp[p].releases + 1,
                          !.frees = hp[p].frees + 1]]

foreign_drop(hp, p) == CFRelease(hp, p)

\* A plausible slip: a clone that copies the pointer without a retain.
foreign_clone_no_retain(hp, p) == hp

foreign_clone(hp, p) == CFRetain(hp, p)

\* A plausible slip: wrapping whatever the native call returned.
factory_result_unchecked(event_ref) == "Ok"

\* if !event_ref.is_null() { Ok(Self::from_ptr(event_ref)) } else { Err(()) }
factory_result(event_ref) == IF event_ref # NullPtr THEN "Ok" ELSE "Err"

\* A plausible slip: a factory that borrows its source.
pass_source_borrowed(srcs, s) == srcs

\* `source: CGEventSource` is a by-value parameter: the caller's value moves
\* into the factory, which drops it on return; the caller's variable is left
\* empty.
pass_source(srcs, s) == [srcs EXCEPT ![s] = "empty"]

\* A plausible slip: post_to_pid compiled in whatever the feature.
post_to_pid_ungated == TRUE

\* #[cfg(feature = "elcapitan")]: the method exists in such a build only.
post_to_pid_compiled == elcapitan

\* A plausible slip: a post that consumes its reference.
post_releasing(hp, p, tap) == CFRelease(CGEventPost(hp, tap, p), p)

post(hp, p, tap) == CGEventPost(hp, tap, p)

\* self.as_concrete_TypeRef() is taken to be the handle's pointer, as
\* self.as_ptr() is in every other method.
post_to_pid(hp, p, pid) == CGEventPostToPid(hp, pid, p)

location(hp, p) == CGEventGetLocation(hp, p)

\* A plausible slip: flags cut to the named bits (from_bits_truncate).
set_flags_truncating(hp, p, f) == CGEventSetFlags(hp, p, f \cap NamedFlagBits)

set_flags(hp, p, f) == CGEventSetFlags(hp, p, f)

get_flags(hp, p) == CGEventGetFlags(hp, p)

\* A plausible slip: a set_type that "fixes" the stale string.
set_type_clearing(hp, p, t) ==
    CGEventKeyboardSetUnicodeString(
        CGEventSetType(hp, p, Discriminant(t)), p, 0, <<>>)

set_type(hp, p, t) == CGEventSetType(hp, p, Discriminant(t))

get_type(hp, p) == FromDiscriminant(CGEventGetType(hp, p))

set_string_from_utf16_unchecked(hp, p, buf) ==
    LET buflen == Len(buf)
    IN CGEventKeyboardSetUnicodeString(hp, p, buflen, buf)

set_string(hp, p, string) ==
    LET buf == encode_utf16(string)
    IN set_string_from_utf16_unchecked(hp, p, buf)

(***************************************************************************)
(* The caller's view: the handle table, and the record of the last call.   *)
(***************************************************************************)
NoHandle == 0

UnusedHandle == [state |-> "unused", ptr |-> NullPtr, root |-> NoHandle]

Live(hs) == {h \in DOMAIN hs : hs[h].state = "live"}

\* The handle a factory or clone call returns: the next one never used.
NextHandle(hs) ==
    CHOOSE h \in DOMAIN hs :
        /\ hs[h].state = "unused"
        /\ \A g \in DOMAIN hs : g < h => hs[g].state # "unused"

HasRoom(hs) == \E h \in DOMAIN hs : hs[h].state = "unused"

\* The pointer a native create call may return: null, or a new event's.
FreshRef(hp, event_ref) ==
    \/ event_ref = NullPtr
    \/ /\ event_ref \in DOMAIN hp
       /\ ~hp[event_ref].alloc
       /\ \A q \in DOMAIN hp : q < event_ref => hp[q].alloc

\* The record of a call, before its particulars are filled in.
Call(op) ==
    [op |-> op, h |-> NoHandle, made |-> NoHandle, src |-> 0, ref |-> NullPtr,
     fn |-> "", type |-> "", flags |-> {}, text |-> <<>>, point |-> <<0, 0>>,
     tap |-> "", pid |-> 0, result |-> ""]

\* Before any call: no source, no handle and no event yet.
InitOver(features, srcIds, handleIds, ptrs) ==
    /\ elcapitan \in features
    /\ sources = [s \in srcIds |-> "empty"]
    /\ handles = [h \in handleIds |-> UnusedHandle]
    /\ heap = [p \in ptrs |-> BlankEvent]
    /\ last = Call("none")

(***************************************************************************)
(* The caller puts a CGEventSource (event_source.rs, outside this file,    *)
(* makes them) into a variable that holds none.                            *)
(***************************************************************************)
ObtainSource(s) ==
    /\ s \in DOMAIN sources
    /\ sources[s] # "live"
    /\ sources' = [sources EXCEPT ![s] = "live"]
    /\ last' = [Call("obtain_source") EXCEPT !.src = s]
    /\ UNCHANGED <<elcapitan, handles, heap>>

(***************************************************************************)
(* The three factories.  Each passes source.as_ptr() to its create call,   *)
(* which returns `event_ref`, an event of discriminant d, flags f and      *)
(* location loc; wraps a non-null result; and drops its source on return.  *)
(***************************************************************************)
Factory(op, fn, s, event_ref, d, f, loc) ==
    /\ sources[s] = "live"
    /\ HasRoom(handles)
    /\ FreshRef(heap, event_ref)
    /\ LET h == NextHandle(handles)
           r == factory_result(event_ref)
       IN /\ heap' = NativeCreate(heap, event_ref, d, f, loc)
          /\ handles' =
                IF r = "Ok"
                THEN [handles EXCEPT ![h] = [state |-> "live",
                                             ptr |-> event_ref,
                                             root |-> h]]
                ELSE handles
          /\ sources' = pass_source(sources, s)
          /\ last' = [Call(op) EXCEPT !.src = s, !.fn = fn, !.ref = event_ref,
                                      !.made = IF r = "Ok" THEN h ELSE NoHandle,
                                      !.result = r]
    /\ UNCHANGED elcapitan

new(s, event_ref, f, loc) ==
    Factory("new", "CGEventCreate", s, event_ref, Discriminant("Null"), f, loc)

\* The native call makes a key down, key up or flags changed event.
new_keyboard_event(s, keycode, keydown, event_ref, t, f, loc) ==
    /\ t \in {IF keydown THEN "KeyDown" ELSE "KeyUp", "FlagsChanged"}
    /\ Factory("new_keyboard_event", "CGEventCreateKeyboardEvent", s, event_ref,
               Discriminant(t), f, loc)

new_mouse_event(s, mouse_type, position, mouse_button, event_ref, f) ==
    Factory("new_mouse_event", "CGEventCreateMouseEvent", s, event_ref,
            Discriminant(mouse_type), f, position)

type_id ==
    /\ last' = [Call("type_id") EXCEPT !.fn = "CGEventGetTypeID",
                                       !.result = "CGEventTypeID"]
    /\ UNCHANGED <<elcapitan, sources, handles, heap>>

(***************************************************************************)
(* foreign_type!'s Clone and Drop.                                         *)
(***************************************************************************)
clone(h) ==
    /\ h \in Live(handles)
    /\ HasRoom(handles)
    /\ LET g == NextHandle(handles)
           p == handles[h].ptr
       IN /\ heap' = foreign_clone(heap, p)
          /\ handles' = [handles EXCEPT ![g] = [state |-> "live", ptr |-> p,
                                                root |-> handles[h].root]]
          /\ last' = [Call("clone") EXCEPT !.h = h, !.made = g, !.ref = p,
                                           !.fn = "CFRetain"]
    /\ UNCHANGED <<elcapitan, sources>>

drop(h) ==
    /\ h \in Live(handles)
    /\ LET p == handles[h].ptr
       IN /\ heap' = foreign_drop(heap, p)
          /\ handles' = [handles EXCEPT ![h].state = "dropped"]
          /\ last' = [Call("drop") EXCEPT !.h = h, !.ref = p,
                                          !.fn = "CFRelease"]
    /\ UNCHANGED <<elcapitan, sources>>

(***************************************************************************)
(* The methods on &self.                                                   *)
(***************************************************************************)
Post(h, tap_location) ==
    /\ h \in Live(handles)
    /\ LET p == handles[h].ptr
       IN /\ heap' = post(heap, p, tap_location)
          /\ last' = [Call("post") EXCEPT !.h = h, !.ref = p,
                                          !.fn = "CGEventPost",
                                          !.tap = tap_location,
                                          !.result = "unit"]
    /\ UNCHANGED <<elcapitan, sources, handles>>

PostToPid(h, pid) ==
    /\ post_to_pid_compiled
    /\ h \in Live(handles)
    /\ LET p == handles[h].ptr
       IN /\ heap' = post_to_pid(heap, p, pid)
          /\ last' = [Call("post_to_pid") EXCEPT !.h = h, !.ref = p,
                                                 !.fn = "CGEventPostToPid",
                                                 !.pid = pid,
                                                 !.result = "unit"]
    /\ UNCHANGED <<elcapitan, sources, handles>>

Location(h) ==
    /\ h \in Live(handles)
    /\ LET p == handles[h].ptr
       IN last' = [Call("location") EXCEPT !.h = h, !.ref = p,
                                           !.fn = "CGEventGetLocation",
                                           !.point = location(heap, p),
                                           !.result = "point"]
    /\ UNCHANGED <<elcapitan, sources, handles, heap>>

SetFlags(h, flags) ==
    /\ h \in Live(handles)
    /\ LET p == handles[h].ptr
       IN /\ heap' = set_flags(heap, p, flags)
          /\ last' = [Call("set_flags") EXCEPT !.h = h, !.ref = p,
                                               !.fn = "CGEventSetFlags",
                                               !.flags = flags,
                                               !.result = "unit"]
    /\ UNCHANGED <<elcapitan, sources, handles>>

GetFlags(h) ==
    /\ h \in Live(handles)
    /\ LET p == handles[h].ptr
       IN last' = [Call("get_flags") EXCEPT !.h = h, !.ref = p,
                                            !.fn = "CGEventGetFlags",
                                            !.flags = get_flags(heap, p),
                                            !.result = "flags"]
    /\ UNCHANGED <<elcapitan, sources, handles, heap>>

SetType(h, event_type) ==
    /\ h \in Live(handles)
    /\ LET p == handles[h].ptr
       IN /\ heap' = set_type(heap, p, event_type)
          /\ last' = [Call("set_type") EXCEPT !.h = h, !.ref = p,
                                              !.fn = "CGEventSetType",
                                              !.type = event_type,
                                              !.result = "unit"]
    /\ UNCHANGED <<elcapitan, sources, handles>>

GetType(h) ==
    /\ h \in Live(handles)
    /\ LET p == handles[h].ptr
       IN last' = [Call("get_type") EXCEPT !.h = h, !.ref = p,
                                           !.fn = "CGEventGetType",
                                           !.type = get_type(heap, p),
                                           !.result = "type"]
    /\ UNCHANGED <<elcapitan, sources, handles, heap>>

SetStringFromUtf16Unchecked(h, buf) ==
    /\ h \in Live(handles)
    /\ LET p == handles[h].ptr
       IN /\ heap' = set_string_from_utf16_unchecked(heap, p, buf)
          /\ last' = [Call("set_string_from_utf16_unchecked") EXCEPT
                         !.h = h, !.ref = p,
                         !.fn = "CGEventKeyboardSetUnicodeString",
                         !.text = buf, !.result = "unit"]
    /\ UNCHANGED <<elcapitan, sources, handles>>

SetString(h, string) ==
    /\ h \in Live(handles)
    /\ LET p == handles[h].ptr
       IN /\ heap' = set_string(heap, p, string)
          /\ last' = [Call("set_string") EXCEPT
                         !.h = h, !.ref = p,
                         !.fn = "CGEventKeyboardSetUnicodeString",
                         !.text = string, !.result = "unit"]
    /\ UNCHANGED <<elcapitan, sources, handles>>

(***************************************************************************)
(* The values the specifications draw their inputs from.                   *)
(***************************************************************************)
\* Masks of named bits, of bits no constant names (0, 63), and of all bits.
FlagValues ==
    {CGEventFlagNull, CGEventFlagShift,
     CGEventFlagCommand \cup CGEventFlagNonCoalesced, {0}, {17, 63},
     AllFlagBits}

\* U+0041, U+FFFF and, above the basic plane, U+10000 and U+1F600.
CodePoints == {65, 65535, 65536, 128512}

\* Code units, among them an unpaired surrogate: the unchecked call takes any.
CodeUnits == {65, 55357}

Points == {<<0, 0>>, <<3, 4>>}

KeyCodes == {0, 56}

(***************************************************************************)
(* One step: any operation, on inputs drawn from the sets of `in`.         *)
(***************************************************************************)
NextOver(in) ==
    \/ \E s \in DOMAIN sources : ObtainSource(s)
    \/ \E s \in DOMAIN sources, event_ref \in {NullPtr} \cup DOMAIN heap,
          f \in in.flags0 :
          new(s, event_ref, f, <<0, 0>>)
    \/ \E s \in DOMAIN sources, event_ref \in {NullPtr} \cup DOMAIN heap,
          keycode \in in.keycodes, keydown \in BOOLEAN, t \in in.keytypes,
          f \in in.flags0 :
          new_keyboard_event(s, keycode, keydown, event_ref, t, f, <<0, 0>>)
    \/ \E s \in DOMAIN sources, event_ref \in {NullPtr} \cup DOMAIN heap,
          t \in in.mousetypes, pos \in in.points,
          mouse_button \in CGMouseButton, f \in in.flags0 :
          new_mouse_event(s, t, pos, mouse_button, event_ref, f)
    \/ type_id
    \/ \E h \in DOMAIN handles : clone(h)
    \/ \E h \in DOMAIN handles : drop(h)
    \/ \E h \in DOMAIN handles, tap \in in.taps : Post(h, tap)
    \/ \E h \in DOMAIN handles, pid \in in.pids : PostToPid(h, pid)
    \/ \E h \in DOMAIN handles : Location(h)
    \/ \E h \in DOMAIN handles, f \in in.flags : SetFlags(h, f)
    \/ \E h \in DOMAIN handles : GetFlags(h)
    \/ \E h \in DOMAIN handles, t \in in.types : SetType(h, t)
    \/ \E h \in DOMAIN handles : GetType(h)
    \/ \E h \in DOMAIN handles, buf \in in.bufs :
          SetStringFromUtf16Unchecked(h, buf)
    \/ \E h \in DOMAIN handles, string \in in.strings : SetString(h, string)

(***************************************************************************)
(* Spec: the life of handles.  Up to MaxEvents events, MaxHandles handles  *)
(* and MaxSources source variables, in both builds, over a few values.     *)
(***************************************************************************)
LifeInputs ==
    [flags0 |-> {CGEventFlagNull},
     keycodes |-> {0},
     keytypes |-> {"KeyDown"},
     mousetypes |-> {"OtherMouseDown"},
     points |-> {<<0, 0>>},
     taps |-> {"HID"},
     pids |-> {1},
     flags |-> {CGEventFlagNull, CGEventFlagShift},
     types |-> {"MouseMoved"},
     bufs |-> {<<>>},
     strings |-> {<<>>}]

Init == InitOver(BOOLEAN, SourceIds, HandleIds, Ptrs)

Next == NextOver(LifeInputs)

Spec == Init /\ [][Next]_vars

(***************************************************************************)
(* The specifications of values: one event, held through a handle and its  *)
(* clone, in a build with the feature; each varies one attribute in full.  *)
(***************************************************************************)
InitValues == InitOver({TRUE}, {1}, {1, 2}, {1})

\* SpecFlags: the sample masks.
FlagInputs ==
    [flags0 |-> {CGEventFlagNull, CGEventFlagNonCoalesced},
     keycodes |-> {0},
     keytypes |-> {"KeyDown", "KeyUp"},
     mousetypes |-> {"LeftMouseDown"},
     points |-> {<<0, 0>>},
     taps |-> {"HID"},
     pids |-> {1},
     flags |-> FlagValues,
     types |-> {"KeyDown"},
     bufs |-> {<<65>>},
     strings |-> {<<>>}]

NextFlags == NextOver(FlagInputs)

SpecFlags == InitValues /\ [][NextFlags]_vars

\* SpecTypes: every variant of CGEventType.
TypeInputs ==
    [flags0 |-> {CGEventFlagNull},
     keycodes |-> KeyCodes,
     keytypes |-> CGEventType,
     mousetypes |-> CGEventType,
     points |-> Points,
     taps |-> CGEventTapLocation,
     pids |-> {1},
     flags |-> {CGEventFlagNull, CGEventFlagShift},
     types |-> CGEventType,
     bufs |-> {<<55357>>},
     strings |-> {<<>>, <<65>>}]

NextTypes == NextOver(TypeInputs)

SpecTypes == InitValues /\ [][NextTypes]_vars

\* SpecStrings: the strings and buffers of up to MaxStrLen elements.
StringInputs ==
    [flags0 |-> {CGEventFlagNull},
     keycodes |-> {0},
     keytypes |-> {"KeyDown"},
     mousetypes |-> {"MouseMoved"},
     points |-> {<<0, 0>>},
     taps |-> {"HID"},
     pids |-> {1},
     flags |-> {CGEventFlagNull},
     types |-> {"MouseMoved"},
     bufs |-> SeqsUpTo(CodeUnits, MaxStrLen),
     strings |-> SeqsUpTo(CodePoints, MaxStrLen)]

NextStrings == NextOver(StringInputs)

SpecStrings == InitValues /\ [][NextStrings]_vars

(***************************************************************************)
(* What the claims speak of.                                               *)
(***************************************************************************)
Factories == {"new", "new_keyboard_event", "new_mouse_event"}

\* The methods that take &self and return no handle.
BorrowingCalls ==
    {"post", "location", "get_flags", "get_type", "set_flags", "set_type",
     "set_string", "set_string_from_utf16_unchecked"}

LiveOn(hs, p) == {h \in Live(hs) : hs[h].ptr = p}

DroppedOn(hs, p) == {h \in DOMAIN hs : hs[h].state = "dropped" /\ hs[h].ptr = p}

\* The handles on p that a clone call made.
ClonedOn(hs, p) ==
    {h \in DOMAIN hs : hs[h].state # "unused" /\ hs[h].ptr = p /\ hs[h].root # h}

\* The live handles that descend, by clone calls, from the handle h does.
Family(hs, h) == {g \in Live(hs) : hs[g].root = hs[h].root}

\* UTF-16 read back into scalar values.
RECURSIVE DecodeUtf16(_)
DecodeUtf16(buf) ==
    IF buf = <<>> THEN <<>>
    ELSE IF /\ Len(buf) >= 2
            /\ buf[1] \in 55296..56319
            /\ buf[2] \in 56320..57343
         THEN <<65536 + (buf[1] - 55296) * 1024 + (buf[2] - 56320)>>
              \o DecodeUtf16(Tail(Tail(buf)))
         ELSE <<buf[1]>> \o DecodeUtf16(Tail(buf))

\* C1: on every event, the retains are the clone calls, the releases are the
\* drops, the count is the number of live handles, and the event is freed
\* once, when its last handle has been dropped: not before, not again.
C1_RetainReleaseFreeOnce ==
    \A p \in DOMAIN heap :
        /\ heap[p].retains = Cardinality(ClonedOn(handles, p))
        /\ heap[p].releases = Cardinality(DroppedOn(handles, p))
        /\ heap[p].rc = Cardinality(LiveOn(handles, p))
        /\ heap[p].frees =
              IF heap[p].alloc /\ LiveOn(handles, p) = {} THEN 1 ELSE 0

\* An event that was cloned, and freed by the drop of its last handle.
C1_Witness ==
    /\ last.op = "drop"
    /\ heap[last.ref].frees = 1
    /\ heap[last.ref].retains >= 1
    /\ heap[last.ref].releases >= 2

\* C2: a factory whose native call returns null returns Err and leaves the
\* handles and the events as they were; one whose native call returns a
\* pointer returns Ok with one new handle, on that pointer; and no live
\* handle ever holds the null pointer.
C2_FactoryNullIsErr ==
    [][/\ last'.op \in Factories =>
            IF last'.ref = NullPtr
            THEN /\ last'.result = "Err"
                 /\ last'.made = NoHandle
                 /\ handles' = handles
                 /\ heap' = heap
            ELSE /\ last'.result = "Ok"
                 /\ last'.made \notin Live(handles)
                 /\ Live(handles') = Live(handles) \cup {last'.made}
                 /\ handles'[last'.made].ptr = last'.ref
       /\ \A h \in Live(handles') : handles'[h].ptr # NullPtr]_vars

\* A factory has failed while a handle of an earlier success is live.
C2_Witness ==
    /\ last.op \in Factories
    /\ last.ref = NullPtr
    /\ last.result = "Err"
    /\ Live(handles) # {}

\* C3: a clone is an alias.  What set_flags or set_type writes through a
\* handle, every live handle of its family reads; and after a drop, the
\* family's other handles are on an event that is not freed and read the
\* flags and type they read before.
C3_CloneAliases ==
    [][/\ last'.op = "set_flags" =>
            \A g \in Family(handles', last'.h) :
                get_flags(heap', handles'[g].ptr) = last'.flags
       /\ last'.op = "set_type" =>
            \A g \in Family(handles', last'.h) :
                get_type(heap', handles'[g].ptr) = last'.type
       /\ last'.op = "drop" =>
            \A g \in Family(handles', last'.h) :
                /\ heap'[handles'[g].ptr].rc > 0
                /\ heap'[handles'[g].ptr].frees = 0
                /\ get_flags(heap', handles'[g].ptr)
                      = get_flags(heap, handles[g].ptr)
                /\ get_type(heap', handles'[g].ptr)
                      = get_type(heap, handles[g].ptr)]_vars

\* The original handle was dropped; its clone reads the flags and type set.
C3_Witness ==
    /\ last.op = "drop"
    /\ handles[last.h].root = last.h
    /\ \E g \in Family(handles, last.h) :
          /\ get_flags(heap, handles[g].ptr) = CGEventFlagShift
          /\ get_type(heap, handles[g].ptr) = "MouseMoved"

\* C4, as claimed: the source passed to a factory is live after the call.
C4_SourceStaysLive ==
    last.op \in Factories => sources[last.src] = "live"

\* C4, amended: a factory takes its source by value.  The call, failed or
\* not, needs a live source and leaves the caller's variable empty; the
\* caller's other sources are as they were.
C4_SourceMovedIn ==
    [][last'.op \in Factories =>
          /\ sources[last'.src] = "live"
          /\ sources' = [sources EXCEPT ![last'.src] = "empty"]]_vars

\* A factory has returned a handle, and its source is gone.
C4_Witness ==
    /\ last.op \in Factories
    /\ last.result = "Ok"
    /\ sources[last.src] = "empty"

\* C5, as claimed: in a build without the feature a caller holding a handle
\* can call post_to_pid, and the call returns UnsupportedCapability.
C5_ReportsUnsupported ==
    (~elcapitan /\ Live(handles) # {}) =>
        ENABLED (\E h \in DOMAIN handles, pid \in LifeInputs.pids :
                    /\ PostToPid(h, pid)
                    /\ last'.result = "UnsupportedCapability")

\* C5, amended: post_to_pid is there in a build with the feature only.
\* Without it no call of it can be made, so none returns anything and none
\* reaches the native post; with it the call passes the event to
\* CGEventPostToPid and returns nothing.  No call returns
\* UnsupportedCapability.
C5_GatedAtCompileTime ==
    /\ ~elcapitan =>
          ~ENABLED (\E h \in DOMAIN handles, pid \in LifeInputs.pids :
                       PostToPid(h, pid))
    /\ last.op = "post_to_pid" =>
          /\ elcapitan
          /\ last.fn = "CGEventPostToPid"
          /\ last.result = "unit"
    /\ last.result # "UnsupportedCapability"

\* In a build without the feature, a caller has posted by the ordinary post.
C5_Witness ==
    /\ ~elcapitan
    /\ last.op = "post"
    /\ last.h \in Live(handles)

\* C6: after set_flags(F), get_flags on the same handle returns F, whatever
\* bits F holds.
C6_FlagsRoundTrip ==
    last.op = "set_flags" =>
        get_flags(heap, handles[last.h].ptr) = last.flags

\* A mask with bit 63 and one with bit 0, which no constant names, was set.
C6_Witness ==
    /\ last.op = "set_flags"
    /\ last.flags = AllFlagBits
    /\ 63 \in get_flags(heap, handles[last.h].ptr)
    /\ 0 \in get_flags(heap, handles[last.h].ptr)

\* C7: after set_type(T), get_type on the same handle returns T, and the
\* event holds T's number: 0xFFFFFFFE and 0xFFFFFFFF for the two sentinels.
C7_TypeRoundTrip ==
    last.op = "set_type" =>
        LET p == handles[last.h].ptr
        IN /\ get_type(heap, p) = last.type
           /\ last.type = "TapDisabledByTimeout" =>
                 CGEventGetType(heap, p) = <<65535, 65534>>
           /\ last.type = "TapDisabledByUserInput" =>
                 CGEventGetType(heap, p) = <<65535, 65535>>
           /\ \A t \in CGEventType \ {last.type} :
                 CGEventGetType(heap, p) # Discriminant(t)

\* A sentinel was set.
C7_Witness ==
    /\ last.op = "set_type"
    /\ last.type = "TapDisabledByTimeout"
    /\ get_type(heap, handles[last.h].ptr) = "TapDisabledByTimeout"

\* C8: set_type changes the type of its event and nothing else: not the
\* flags, not the unicode string, of this or any event.
C8_SetTypeOnlyType ==
    [][last'.op = "set_type" =>
          \A p \in DOMAIN heap :
              [heap'[p] EXCEPT !.type = heap[p].type] = heap[p]]_vars

\* A non-keyboard type was set on an event that has flags and a string.
C8_Witness ==
    /\ last.op = "set_type"
    /\ last.type \notin {"KeyDown", "KeyUp", "FlagsChanged"}
    /\ heap[handles[last.h].ptr].ulen > 0
    /\ heap[handles[last.h].ptr].ustr # <<>>
    /\ heap[handles[last.h].ptr].flags # {}

\* C9: after set_string(text) the event holds the UTF-16 code units of
\* text, in order: they read back as text, and the length passed is their
\* number, one for each scalar value and one more for each above U+FFFF.
C9_SetStringUtf16 ==
    last.op = "set_string" =>
        LET p == handles[last.h].ptr
            text == last.text
        IN /\ DecodeUtf16(heap[p].ustr) = text
           /\ \A i \in 1..Len(heap[p].ustr) : heap[p].ustr[i] \in 0..65535
           /\ heap[p].ulen = Len(heap[p].ustr)
           /\ heap[p].ulen =
                 Len(text)
                 + Cardinality({i \in 1..Len(text) : text[i] > 65535})

\* A string of two scalar values, one above U+FFFF, became three units.
C9_Witness ==
    /\ last.op = "set_string"
    /\ last.text = <<65, 128512>>
    /\ heap[handles[last.h].ptr].ulen = 3
    /\ heap[handles[last.h].ptr].ustr = <<65, 55357, 56832>>

\* C10: a call of post, location, a getter or a setter leaves the handles
\* and every event's count, retains, releases and frees as they were: its
\* handle is still live, and each count is still the number of live handles.
C10_BorrowingCallsKeepCount ==
    [][last'.op \in BorrowingCalls =>
          /\ handles' = handles
          /\ last'.h \in Live(handles')
          /\ \A p \in DOMAIN heap :
                /\ heap'[p].rc = heap[p].rc
                /\ heap'[p].retains = heap[p].retains
                /\ heap'[p].releases = heap[p].releases
                /\ heap'[p].frees = heap[p].frees
                /\ heap'[p].rc = Cardinality(LiveOn(handles', p))]_vars

\* A handle was posted while it and its clone hold the event.
C10_Witness ==
    /\ last.op = "post"
    /\ last.h \in Live(handles)
    /\ heap[last.ref].rc = 2
    /\ heap[last.ref].frees = 0

====
